---- MODULE Spec2Model ----
(***************************************************************************)
(* The meal-plan tools of src/tools/mealplan_tools.py as a state machine.  *)
(*                                                                         *)
(* register_mealplan_tools binds four tools to the host framework; each    *)
(* tool runs in a fresh frame, forwards to the injected fetch client       *)
(* (`mealie`, the delegate) inside a try block, and wraps every exception  *)
(* in a ToolError.  One invocation is in progress at a time.               *)
(*                                                                         *)
(* Values are opaque to this layer (they are only passed through), so      *)
(* dates, ids, page numbers and response bodies are string tokens.  A      *)
(* dict / keyword-argument set is a record holding exactly the keys that   *)
(* are present.  A message is a sequence of text pieces; an f-string is    *)
(* the concatenation of its pieces.  The logger calls change nothing the   *)
(* caller or the delegate can observe and are left out.                    *)
(***************************************************************************)
EXTENDS Naturals, Sequences, FiniteSets, TLC

VARIABLES
    pc,         \* position of the invocation: idle | call | loop | except | done
    tool,       \* the tool being invoked ("none" before the first invocation)
    given,      \* the keyword arguments the caller supplied (present keys only)
    args,       \* the tool's parameters after the signature's defaults are bound
    idx,        \* create_mealplan_bulk: position of `entry` in `entries` (1-based)
    validated,  \* create_mealplan_bulk: number of model_validate calls made
    calls,      \* delegate calls issued by this invocation, with their outcomes
    exc,        \* the exception caught by the except clause
    result,     \* what the invocation hands to the caller
    prev        \* summary of the previous invocation (history only)

vars == <<pc, tool, given, args, idx, validated, calls, exc, result, prev>>

-----------------------------------------------------------------------------
(* Bounds and input domains *)

MaxBatch == 3

None == "<None>"
IntVal == "<int>"

ToolNames ==
    {"get_all_mealplans", "create_mealplan", "create_mealplan_bulk", "get_todays_mealplan"}

EmptyDict == [k \in {} |-> None]

\* Keyword arguments a caller may supply to get_all_mealplans: any subset of the
\* four optional parameters.
GetAllInputs ==
    { [k \in ks |-> CASE k = "start_date" -> "2025-01-01"
                      [] k = "end_date"   -> "2025-01-31"
                      [] k = "page"       -> "2"
                      [] k = "per_page"   -> "50"] :
        ks \in SUBSET {"start_date", "end_date", "page", "per_page"} }

\* Keyword arguments a caller may supply to create_mealplan: date is required.
CreateInputs ==
    { [k \in ks \cup {"date"} |->
            CASE k = "date"       -> d
              [] k = "recipe_id"  -> "recipe-1"
              [] k = "title"      -> "Soup"
              [] k = "entry_type" -> "dinner"] :
        ks \in SUBSET {"recipe_id", "title", "entry_type"},
        d \in {"2025-01-01", "2025-01-02"} }

\* Entry dicts a caller may put in a bulk batch: two that have the MealPlanEntry
\* shape and two that do not (date missing; date not a string and entry_type
\* outside the enumeration).
BulkEntryDicts ==
    { [date |-> "2025-01-01", recipe_id |-> "recipe-1"],
      [date |-> "2025-01-02", title |-> "Soup", entry_type |-> "dinner"],
      [recipe_id |-> "recipe-1"],
      [date |-> IntVal, entry_type |-> "brunch"] }

Batches == UNION { [1..n -> BulkEntryDicts] : n \in 0..MaxBatch }

\* What a delegate call can do: return a response or raise an exception.
Ok(v) == [ok |-> TRUE, value |-> v, kind |-> "", msg |-> <<>>]
Fail(k, m) == [ok |-> FALSE, value |-> EmptyDict, kind |-> k, msg |-> m]

DelegateOutcomes ==
    { Ok([body |-> "A"]), Ok([body |-> "B"]),
      Fail("ConnectionError", <<"connection refused">>),
      Fail("HTTPStatusError", <<"422", " Unprocessable Entity">>) }

-----------------------------------------------------------------------------
(* Results and exceptions *)

NoResult == [kind |-> "none"]
Return(v) == [kind |-> "return", value |-> v]
Raise(e, m) == [kind |-> "raise", error |-> e, msg |-> m]

NoExc == [kind |-> "", msg |-> <<>>]

Call(method, kwargs, outcome) == [method |-> method, kwargs |-> kwargs, outcome |-> outcome]

\* (mutant) the ToolError carries the prefix only: str(e) is left out
WrapError_DropsCause(prefix, e) == Raise("ToolError", <<prefix>>)

\* raise ToolError(f"<prefix>{str(e)}")
WrapError(prefix, e) == Raise("ToolError", <<prefix>> \o e.msg)

-----------------------------------------------------------------------------
(* models.mealplan.MealPlanEntry *)

EntryTypes == {"breakfast", "lunch", "dinner", "side"}

IsStr(v) == v \notin {None, IntVal}

\* MealPlanEntry.model_validate(entry) succeeds
Valid(entry) ==
    /\ "date" \in DOMAIN entry /\ IsStr(entry.date)
    /\ "recipe_id" \in DOMAIN entry => entry.recipe_id # IntVal
    /\ "title" \in DOMAIN entry => entry.title # IntVal
    /\ "entry_type" \in DOMAIN entry => entry.entry_type \in EntryTypes

\* the exception MealPlanEntry.model_validate(entry) raises otherwise
ValidationErrorOf(entry) ==
    [kind |-> "ValidationError",
     msg  |-> <<"1 validation error for MealPlanEntry",
                IF "date" \notin DOMAIN entry \/ ~IsStr(entry.date) THEN "date"
                ELSE IF "entry_type" \in DOMAIN entry /\ entry.entry_type \notin EntryTypes
                     THEN "entry_type" ELSE "field">>]

\* MealPlanEntry.model_validate(entry).model_dump()
ModelDump(entry) ==
    [date       |-> entry.date,
     recipe_id  |-> IF "recipe_id" \in DOMAIN entry THEN entry.recipe_id ELSE None,
     title      |-> IF "title" \in DOMAIN entry THEN entry.title ELSE None,
     entry_type |-> IF "entry_type" \in DOMAIN entry THEN entry.entry_type ELSE "breakfast"]

-----------------------------------------------------------------------------
(* Frames *)

Init ==
    /\ pc = "idle"
    /\ tool = "none"
    /\ given = EmptyDict
    /\ args = EmptyDict
    /\ idx = 1
    /\ validated = 0
    /\ calls = <<>>
    /\ exc = NoExc
    /\ result = NoResult
    /\ prev = [tool |-> "none", failed |-> FALSE, cause |-> "", partial |-> FALSE]

\* The host framework may invoke a tool when no invocation is in progress.
CanInvoke == pc \in {"idle", "done"}

\* What is known of the invocation that just ended: which tool, whether it raised,
\* the kind of the exception it caught, and whether it raised after a delegate call
\* had already returned (a bulk creation aborted midway).
Summary ==
    [tool |-> tool, failed |-> result.kind = "raise", cause |-> exc.kind,
     partial |-> result.kind = "raise" /\ \E i \in 1..Len(calls) : calls[i].outcome.ok]

\* (mutant) the loop position is shared between invocations instead of being a
\* local of the frame
NewFrame_KeepsIndex(t, kw, bound) ==
    /\ prev' = Summary
    /\ pc' = IF t = "create_mealplan_bulk" THEN "loop" ELSE "call"
    /\ tool' = t
    /\ given' = kw
    /\ args' = bound
    /\ idx' = idx
    /\ validated' = 0
    /\ calls' = <<>>
    /\ exc' = NoExc
    /\ result' = NoResult

\* A new invocation runs in a fresh frame: no local of an earlier one survives.
NewFrame(t, kw, bound) ==
    /\ prev' = Summary
    /\ pc' = IF t = "create_mealplan_bulk" THEN "loop" ELSE "call"
    /\ tool' = t
    /\ given' = kw
    /\ args' = bound
    /\ idx' = 1
    /\ validated' = 0
    /\ calls' = <<>>
    /\ exc' = NoExc
    /\ result' = NoResult

\* A parameter's value: the caller's, or the signature's default.
Param(kw, name, default) == IF name \in DOMAIN kw THEN kw[name] ELSE default

-----------------------------------------------------------------------------
(* get_all_mealplans *)

GetAllParams(kw) ==
    [start_date |-> Param(kw, "start_date", None),
     end_date   |-> Param(kw, "end_date", None),
     page       |-> Param(kw, "page", None),
     per_page   |-> Param(kw, "per_page", None)]

InvokeGetAll ==
    /\ CanInvoke
    /\ \E kw \in GetAllInputs : NewFrame("get_all_mealplans", kw, GetAllParams(kw))

\* (mutant) a failed delegate call is tried again
ReturnDelegate_Retry(method, kwargs) ==
    /\ pc = "call"
    /\ \E o \in DelegateOutcomes :
          /\ calls' = Append(calls, Call(method, kwargs, o))
          /\ IF o.ok
             THEN /\ result' = Return(o.value)
                  /\ pc' = "done"
                  /\ exc' = exc
             ELSE /\ exc' = [kind |-> o.kind, msg |-> o.msg]
                  /\ pc' = IF calls = <<>> THEN "call" ELSE "except"
                  /\ result' = result
    /\ UNCHANGED <<tool, given, args, idx, validated, prev>>

\* `return mealie.<method>(**kwargs)` inside the try block: the call is issued; the
\* delegate's response is returned as it is, or its exception reaches the except
\* clause.
ReturnDelegate(method, kwargs) ==
    /\ pc = "call"
    /\ \E o \in DelegateOutcomes :
          /\ calls' = Append(calls, Call(method, kwargs, o))
          /\ IF o.ok
             THEN /\ result' = Return(o.value)
                  /\ pc' = "done"
                  /\ exc' = exc
             ELSE /\ exc' = [kind |-> o.kind, msg |-> o.msg]
                  /\ pc' = "except"
                  /\ result' = result
    /\ UNCHANGED <<tool, given, args, idx, validated, prev>>

\* (mutant) page and per_page change places
GetAllKwargs_PageSwapped ==
    [start_date |-> args.start_date,
     end_date   |-> args.end_date,
     page       |-> args.per_page,
     per_page   |-> args.page]

\* the keyword arguments of mealie.get_mealplans(...)
GetAllKwargs ==
    [start_date |-> args.start_date,
     end_date   |-> args.end_date,
     page       |-> args.page,
     per_page   |-> args.per_page]

GetAllCall ==
    /\ tool = "get_all_mealplans"
    /\ ReturnDelegate("get_mealplans", GetAllKwargs)

\* `except Exception as e:` ... `raise ToolError(error_msg)`
Handle(prefix) ==
    /\ pc = "except"
    /\ result' = WrapError(prefix, exc)
    /\ pc' = "done"
    /\ UNCHANGED <<tool, given, args, idx, validated, calls, exc, prev>>

GetAllExcept ==
    /\ tool = "get_all_mealplans"
    /\ Handle("Error fetching mealplans: ")

-----------------------------------------------------------------------------
(* create_mealplan *)

\* (mutant) entry_type has no default value
CreateParams_NoDefaultType(kw) ==
    [date       |-> kw.date,
     recipe_id  |-> Param(kw, "recipe_id", None),
     title      |-> Param(kw, "title", None),
     entry_type |-> Param(kw, "entry_type", None)]

CreateParams(kw) ==
    [date       |-> kw.date,
     recipe_id  |-> Param(kw, "recipe_id", None),
     title      |-> Param(kw, "title", None),
     entry_type |-> Param(kw, "entry_type", "breakfast")]

InvokeCreate ==
    /\ CanInvoke
    /\ \E kw \in CreateInputs : NewFrame("create_mealplan", kw, CreateParams(kw))

\* the keyword arguments of mealie.create_mealplan(...)
CreateKwargs ==
    [date       |-> args.date,
     recipe_id  |-> args.recipe_id,
     title      |-> args.title,
     entry_type |-> args.entry_type]

CreateCall ==
    /\ tool = "create_mealplan"
    /\ ReturnDelegate("create_mealplan", CreateKwargs)

CreateExcept ==
    /\ tool = "create_mealplan"
    /\ Handle("Error creating mealplan entry: ")

-----------------------------------------------------------------------------
(* create_mealplan_bulk *)

InvokeBulk ==
    /\ CanInvoke
    /\ \E es \in Batches :
          NewFrame("create_mealplan_bulk", [entries |-> es], [entries |-> es])

\* (mutant) the loop stops one entry early
LoopHasNext_OffByOne == idx < Len(args.entries)

\* `for entry in entries:` has an entry left
LoopHasNext == idx <= Len(args.entries)

\* (mutant) an entry that fails validation is skipped and the loop goes on
BulkInvalid_SkipsEntry ==
    /\ tool = "create_mealplan_bulk"
    /\ pc = "loop"
    /\ LoopHasNext
    /\ ~Valid(args.entries[idx])
    /\ validated' = validated + 1
    /\ idx' = idx + 1
    /\ UNCHANGED <<pc, tool, given, args, calls, exc, result, prev>>

\* entry_obj = MealPlanEntry.model_validate(entry) raises
BulkInvalid ==
    /\ tool = "create_mealplan_bulk"
    /\ pc = "loop"
    /\ LoopHasNext
    /\ ~Valid(args.entries[idx])
    /\ validated' = validated + 1
    /\ exc' = ValidationErrorOf(args.entries[idx])
    /\ pc' = "except"
    /\ UNCHANGED <<tool, given, args, idx, calls, result, prev>>

\* (mutant) the entry dict is passed to the delegate as it came, without
\* model_validate: mealie.create_mealplan(**entry)
BulkCreate_Unvalidated ==
    /\ tool = "create_mealplan_bulk"
    /\ pc = "loop"
    /\ LoopHasNext
    /\ \E o \in DelegateOutcomes :
          /\ calls' = Append(calls, Call("create_mealplan", args.entries[idx], o))
          /\ IF o.ok
             THEN /\ idx' = idx + 1
                  /\ pc' = "loop"
                  /\ exc' = exc
             ELSE /\ idx' = idx
                  /\ exc' = [kind |-> o.kind, msg |-> o.msg]
                  /\ pc' = "except"
    /\ UNCHANGED <<tool, given, args, validated, result, prev>>

\* (mutant) a failed create call is swallowed and the loop goes on with the next
\* entry
BulkCreate_ContinuesAfterFailure ==
    /\ tool = "create_mealplan_bulk"
    /\ pc = "loop"
    /\ LoopHasNext
    /\ Valid(args.entries[idx])
    /\ validated' = validated + 1
    /\ \E o \in DelegateOutcomes :
          calls' = Append(calls, Call("create_mealplan", ModelDump(args.entries[idx]), o))
    /\ idx' = idx + 1
    /\ UNCHANGED <<pc, tool, given, args, exc, result, prev>>

\* entry_obj = MealPlanEntry.model_validate(entry) succeeds, then
\* mealie.create_mealplan(**entry_obj.model_dump()): the loop goes on to the next
\* entry when the call returns, and leaves for the except clause when it raises.
BulkCreate ==
    /\ tool = "create_mealplan_bulk"
    /\ pc = "loop"
    /\ LoopHasNext
    /\ Valid(args.entries[idx])
    /\ validated' = validated + 1
    /\ \E o \in DelegateOutcomes :
          /\ calls' = Append(calls,
                 Call("create_mealplan", ModelDump(args.entries[idx]), o))
          /\ IF o.ok
             THEN /\ idx' = idx + 1
                  /\ pc' = "loop"
                  /\ exc' = exc
             ELSE /\ idx' = idx
                  /\ exc' = [kind |-> o.kind, msg |-> o.msg]
                  /\ pc' = "except"
    /\ UNCHANGED <<tool, given, args, result, prev>>

\* f"Successfully created {len(entries)} mealplan entries"
SuccessMessage(entries) ==
    <<"Successfully created ", ToString(Len(entries)), " mealplan entries">>

BulkReturn ==
    /\ tool = "create_mealplan_bulk"
    /\ pc = "loop"
    /\ ~LoopHasNext
    /\ result' = Return([message |-> SuccessMessage(args.entries)])
    /\ pc' = "done"
    /\ UNCHANGED <<tool, given, args, idx, validated, calls, exc, prev>>

\* (mutant) the except clause lets a validation error through as it is
BulkExcept_LeaksValidationError ==
    /\ tool = "create_mealplan_bulk"
    /\ pc = "except"
    /\ result' = IF exc.kind = "ValidationError"
                 THEN Raise("ValidationError", exc.msg)
                 ELSE WrapError("Error creating bulk mealplan entries: ", exc)
    /\ pc' = "done"
    /\ UNCHANGED <<tool, given, args, idx, validated, calls, exc, prev>>

BulkExcept ==
    /\ tool = "create_mealplan_bulk"
    /\ Handle("Error creating bulk mealplan entries: ")

-----------------------------------------------------------------------------
(* get_todays_mealplan *)

InvokeToday ==
    /\ CanInvoke
    /\ NewFrame("get_todays_mealplan", EmptyDict, EmptyDict)

TodayCall ==
    /\ tool = "get_todays_mealplan"
    /\ ReturnDelegate("get_todays_mealplan", EmptyDict)

TodayExcept ==
    /\ tool = "get_todays_mealplan"
    /\ Handle("Error fetching today's mealplan: ")

-----------------------------------------------------------------------------

Next ==
    \/ InvokeGetAll \/ GetAllCall \/ GetAllExcept
    \/ InvokeCreate \/ CreateCall \/ CreateExcept
    \/ InvokeBulk \/ BulkInvalid \/ BulkCreate \/ BulkReturn \/ BulkExcept
    \/ InvokeToday \/ TodayCall \/ TodayExcept

Spec == Init /\ [][Next]_vars

-----------------------------------------------------------------------------
(* Vocabulary of the properties *)

IsBulk == tool = "create_mealplan_bulk"

SingleCallTools == {"get_all_mealplans", "create_mealplan", "get_todays_mealplan"}

Ended == pc = "done"

RaisedToolError == result.kind = "raise" /\ result.error = "ToolError"

\* the positions of the delegate calls that raised
FailedCalls == { i \in 1..Len(calls) : ~calls[i].outcome.ok }

\* position of the first structurally invalid entry of a batch, 0 when there is none
FirstInvalid(es) ==
    IF \E i \in 1..Len(es) : ~Valid(es[i])
    THEN CHOOSE i \in 1..Len(es) : ~Valid(es[i]) /\ \A j \in 1..(i - 1) : Valid(es[j])
    ELSE 0

\* m occurs in s as a contiguous run of pieces
Contains(s, m) ==
    \E j \in 0..Len(s) : j + Len(m) <= Len(s) /\ SubSeq(s, j + 1, j + Len(m)) = m

\* the value the caller supplied for a parameter, None when it was omitted
Supplied(kw, name) == IF name \in DOMAIN kw THEN kw[name] ELSE None

BulkPrefix == "Error creating bulk mealplan entries: "

-----------------------------------------------------------------------------
\* C1: in create_mealplan_bulk, when the first structurally invalid entry of the
\* batch is at position k, no delegate create call is ever issued for position k or
\* a later one (the calls issued are those of positions before k, in order), and
\* the invocation ends by raising a ToolError, not by returning.
C1_BulkStopsAtFirstInvalid ==
    (IsBulk /\ FirstInvalid(given.entries) # 0) =>
        LET k == FirstInvalid(given.entries) IN
        /\ Len(calls) < k
        /\ \A i \in 1..Len(calls) : calls[i].kwargs = ModelDump(given.entries[i])
        /\ Ended => RaisedToolError

\* a batch good, bad, good has ended: one call was made, the third entry never tried
C1_Witness ==
    /\ IsBulk /\ Ended
    /\ Len(given.entries) = 3
    /\ FirstInvalid(given.entries) = 2
    /\ Valid(given.entries[3])
    /\ Len(calls) = 1 /\ calls[1].outcome.ok
    /\ RaisedToolError

\* C2: in create_mealplan_bulk, for a batch of N structurally valid entries
\* (N >= 0) whose delegate calls all succeed, exactly N create calls are issued, the
\* i-th for the i-th entry, and the value returned is the message stating N and
\* nothing else.
C2_BulkCreatesAllAndCountsN ==
    (IsBulk /\ Ended /\ FirstInvalid(given.entries) = 0 /\ FailedCalls = {}) =>
        LET N == Len(given.entries) IN
        /\ Len(calls) = N
        /\ \A i \in 1..N :
              /\ calls[i].method = "create_mealplan"
              /\ calls[i].kwargs = ModelDump(given.entries[i])
        /\ result = Return([message |->
                        <<"Successfully created ", ToString(N), " mealplan entries">>])

C2_Witness ==
    /\ IsBulk /\ Ended
    /\ Len(given.entries) = 3
    /\ given.entries[1] # given.entries[2]
    /\ FirstInvalid(given.entries) = 0
    /\ FailedCalls = {}
    /\ result.kind = "return"

\* C3: for each of the four tools, once a delegate call has raised an exception
\* with message m the invocation goes to its except clause and ends by raising a
\* ToolError whose message contains m: it never returns a result and never lets
\* the delegate's own exception through.
C3_DelegateFailureIsWrapped ==
    (FailedCalls # {}) =>
        /\ tool \in ToolNames
        /\ pc \in {"except", "done"}
        /\ Ended =>
              /\ RaisedToolError
              /\ \A i \in FailedCalls : Contains(result.msg, calls[i].outcome.msg)

C3_Witness ==
    /\ Ended
    /\ tool = "get_all_mealplans"
    /\ FailedCalls = {1}
    /\ Len(calls[1].outcome.msg) = 2
    /\ RaisedToolError
    /\ prev.tool = "get_todays_mealplan" /\ prev.failed

\* C4, as stated: create_mealplan_bulk validates every entry of the batch before it
\* issues any create call, so a batch that holds a structurally invalid entry at
\* any position issues no create call at all.
C4_ValidatesWholeBatchFirst ==
    IsBulk =>
        /\ calls # <<>> => validated = Len(given.entries)
        /\ FirstInvalid(given.entries) # 0 => calls = <<>>

\* C4, amended: create_mealplan_bulk validates each entry immediately before that
\* entry's create call, not the whole batch first.  The create call of entry i is
\* issued only after entries 1..i have been validated and found valid, at most one
\* entry is validated beyond the calls issued, and a batch whose first structurally
\* invalid entry is at position k issues no create call for position k or later
\* but does issue those of the entries before k: exactly k-1 calls when they all
\* succeed, with k entries validated.
C4_ValidatesEachEntryBeforeItsCall ==
    IsBulk =>
        /\ Len(calls) <= validated
        /\ validated <= Len(calls) + 1
        /\ validated <= Len(given.entries)
        /\ \A i \in 1..Len(calls) : Valid(given.entries[i])
        /\ FirstInvalid(given.entries) # 0 =>
              LET k == FirstInvalid(given.entries) IN
              /\ Len(calls) <= k - 1
              /\ (Ended /\ FailedCalls = {}) => (Len(calls) = k - 1 /\ validated = k)

\* good, good, bad: two create calls were issued before the third entry failed
\* validation
C4_Witness ==
    /\ IsBulk /\ Ended
    /\ FirstInvalid(given.entries) = 3
    /\ Len(calls) = 2
    /\ validated = 3
    /\ exc.kind = "ValidationError"

\* C5: get_all_mealplans issues exactly one delegate call, get_mealplans, whose
\* start_date, end_date, page and per_page are the caller's values, None for each
\* one the caller omitted; when that call succeeds the tool returns its response
\* unchanged.
C5_GetAllForwardsFilters ==
    (tool = "get_all_mealplans") =>
        /\ pc = "call" => calls = <<>>
        /\ pc \in {"except", "done"} =>
              /\ Len(calls) = 1
              /\ calls[1].method = "get_mealplans"
              /\ calls[1].kwargs =
                    [start_date |-> Supplied(given, "start_date"),
                     end_date   |-> Supplied(given, "end_date"),
                     page       |-> Supplied(given, "page"),
                     per_page   |-> Supplied(given, "per_page")]
              /\ (Ended /\ calls[1].outcome.ok) => result = Return(calls[1].outcome.value)

C5_Witness ==
    /\ tool = "get_all_mealplans" /\ Ended
    /\ DOMAIN given = {"start_date", "per_page"}
    /\ calls[1].kwargs.page = None
    /\ result = Return([body |-> "B"])

\* C6: create_mealplan issues exactly one delegate call, create_mealplan, carrying
\* the caller's date, recipe_id and title (None for an omitted recipe_id or title)
\* and the caller's entry_type, "breakfast" when it was omitted; when that call
\* succeeds the tool returns its response unchanged.
C6_CreateForwardsEntry ==
    (tool = "create_mealplan") =>
        /\ pc = "call" => calls = <<>>
        /\ pc \in {"except", "done"} =>
              /\ Len(calls) = 1
              /\ calls[1].method = "create_mealplan"
              /\ calls[1].kwargs =
                    [date       |-> given.date,
                     recipe_id  |-> Supplied(given, "recipe_id"),
                     title      |-> Supplied(given, "title"),
                     entry_type |-> IF "entry_type" \in DOMAIN given
                                    THEN given.entry_type ELSE "breakfast"]
              /\ (Ended /\ calls[1].outcome.ok) => result = Return(calls[1].outcome.value)

C6_Witness ==
    /\ tool = "create_mealplan" /\ Ended
    /\ DOMAIN given = {"date", "title"}
    /\ calls[1].kwargs.entry_type = "breakfast"
    /\ result = Return([body |-> "A"])

\* C7: no tool retries.  In an invocation nothing is issued after a delegate call
\* that failed (only the last call issued can be a failed one), and
\* get_all_mealplans, create_mealplan and get_todays_mealplan issue exactly one
\* delegate call per invocation, whether it succeeds or fails.
C7_NoRetry ==
    /\ \A i \in 1..Len(calls) : (i < Len(calls)) => calls[i].outcome.ok
    /\ tool \in SingleCallTools =>
          /\ pc = "call" => calls = <<>>
          /\ pc \in {"except", "done"} => Len(calls) = 1

C7_Witness ==
    /\ tool = "get_todays_mealplan" /\ Ended
    /\ Len(calls) = 1
    /\ ~calls[1].outcome.ok
    /\ RaisedToolError

\* C8: a failure reaches the caller as a ToolError whatever caused it.  Whenever a
\* tool raises, it raises a ToolError; an invocation whose except clause caught
\* something ends by raising; and in create_mealplan_bulk the message starts with
\* the same prefix after an invalid entry as after a failed delegate call.
C8_OneErrorKind ==
    /\ result.kind = "raise" => result.error = "ToolError"
    /\ (Ended /\ exc.kind # "") =>
          /\ RaisedToolError
          /\ IsBulk => Head(result.msg) = BulkPrefix

\* a bulk creation ended on an invalid entry, right after one that ended on a
\* failed delegate call
C8_Witness ==
    /\ IsBulk /\ Ended
    /\ exc.kind = "ValidationError"
    /\ RaisedToolError
    /\ prev.tool = "create_mealplan_bulk" /\ prev.cause = "ConnectionError"

\* C9: create_mealplan_bulk works through the entries in list order, one at a
\* time: the i-th delegate call is the create call of entry i and is issued only
\* when the calls of all entries before i have returned successfully.  When the
\* invocation fails at entry k (entry k invalid, or its create call failing), the
\* calls of the entries before k stand as made (nothing but create calls is ever
\* issued), no call is made for an entry after k, and the caller gets exactly the
\* ToolError wrapping the failure: no count message, no list of created entries.
C9_BulkInOrderNoRollback ==
    IsBulk =>
        /\ \A i \in 1..Len(calls) :
              /\ calls[i].method = "create_mealplan"
              /\ calls[i].kwargs = ModelDump(given.entries[i])
              /\ \A j \in 1..(i - 1) : calls[j].outcome.ok
        /\ pc = "loop" => (FailedCalls = {} /\ Len(calls) = idx - 1)
        /\ (Ended /\ exc.kind # "") =>
              LET k == Cardinality({ i \in 1..Len(calls) : calls[i].outcome.ok }) + 1 IN
              /\ k <= Len(given.entries)
              /\ \A i \in 1..(k - 1) : calls[i].outcome.ok
              /\ Len(calls) = IF exc.kind = "ValidationError" THEN k - 1 ELSE k
              /\ exc.kind = "ValidationError" <=> ~Valid(given.entries[k])
              /\ result = Raise("ToolError", <<BulkPrefix>> \o exc.msg)

\* three valid entries, the second create call failed after the first succeeded
C9_Witness ==
    /\ IsBulk /\ Ended
    /\ Len(given.entries) = 3
    /\ FirstInvalid(given.entries) = 0
    /\ Len(calls) = 2
    /\ calls[1].outcome.ok /\ ~calls[2].outcome.ok
    /\ RaisedToolError

\* the delegate's responses to this invocation, in the order it gave them
Responses == [i \in 1..Len(calls) |-> calls[i].outcome]

\* The delegate calls (DeterminedCalls, DeterminedCount of them) and the result
\* (DeterminedResult) that a tool's arguments and the delegate's responses
\* determine by themselves.
DeterminedCalls(t, kw, outs) ==
    CASE t = "get_all_mealplans" ->
            <<Call("get_mealplans",
                   [start_date |-> Supplied(kw, "start_date"),
                    end_date   |-> Supplied(kw, "end_date"),
                    page       |-> Supplied(kw, "page"),
                    per_page   |-> Supplied(kw, "per_page")], outs[1])>>
      [] t = "create_mealplan" ->
            <<Call("create_mealplan",
                   [date       |-> kw.date,
                    recipe_id  |-> Supplied(kw, "recipe_id"),
                    title      |-> Supplied(kw, "title"),
                    entry_type |-> IF "entry_type" \in DOMAIN kw
                                   THEN kw.entry_type ELSE "breakfast"], outs[1])>>
      [] t = "get_todays_mealplan" ->
            <<Call("get_todays_mealplan", EmptyDict, outs[1])>>
      [] t = "create_mealplan_bulk" ->
            LET k == FirstInvalid(kw.entries)
                limit == IF k = 0 THEN Len(kw.entries) ELSE k - 1
                bad == { i \in 1..Len(outs) : i <= limit /\ ~outs[i].ok }
                n == IF bad = {} THEN limit
                     ELSE CHOOSE i \in bad : \A j \in bad : i <= j
            IN  [i \in 1..n |-> Call("create_mealplan", ModelDump(kw.entries[i]), outs[i])]

DeterminedCount(t, kw, outs) ==
    IF t \in SingleCallTools THEN 1
    ELSE LET k == FirstInvalid(kw.entries)
             limit == IF k = 0 THEN Len(kw.entries) ELSE k - 1
             bad == { i \in 1..Len(outs) : i <= limit /\ ~outs[i].ok }
         IN  IF bad = {} THEN limit ELSE CHOOSE i \in bad : \A j \in bad : i <= j

DeterminedResult(t, kw, outs) ==
    CASE t = "get_all_mealplans" ->
            IF outs[1].ok THEN Return(outs[1].value)
            ELSE Raise("ToolError", <<"Error fetching mealplans: ">> \o outs[1].msg)
      [] t = "create_mealplan" ->
            IF outs[1].ok THEN Return(outs[1].value)
            ELSE Raise("ToolError", <<"Error creating mealplan entry: ">> \o outs[1].msg)
      [] t = "get_todays_mealplan" ->
            IF outs[1].ok THEN Return(outs[1].value)
            ELSE Raise("ToolError", <<"Error fetching today's mealplan: ">> \o outs[1].msg)
      [] t = "create_mealplan_bulk" ->
            LET k == FirstInvalid(kw.entries)
                limit == IF k = 0 THEN Len(kw.entries) ELSE k - 1
                bad == { i \in 1..Len(outs) : i <= limit /\ ~outs[i].ok }
            IN  IF bad # {}
                THEN Raise("ToolError", <<BulkPrefix>> \o
                           outs[CHOOSE i \in bad : \A j \in bad : i <= j].msg)
                ELSE IF k # 0
                THEN Raise("ToolError", <<BulkPrefix>> \o
                           ValidationErrorOf(kw.entries[k]).msg)
                ELSE Return([message |-> <<"Successfully created ",
                                           ToString(Len(kw.entries)),
                                           " mealplan entries">>])

\* C10: the tools keep no state between invocations.  Whatever invocations came
\* before, successful or failed, the delegate calls an invocation has issued and
\* the result it ends with are those its own arguments and the delegate's
\* responses to it determine; nothing of an earlier invocation shows in them.
C10_NoStateBetweenInvocations ==
    Ended =>
        /\ Len(calls) = DeterminedCount(tool, given, Responses)
        /\ calls = DeterminedCalls(tool, given, Responses)
        /\ result = DeterminedResult(tool, given, Responses)

\* a bulk creation returned normally right after one that was aborted midway
C10_Witness ==
    /\ IsBulk /\ Ended
    /\ prev.tool = "create_mealplan_bulk" /\ prev.partial
    /\ Len(given.entries) = 2
    /\ result.kind = "return"

====
